---- MODULE Spec2Model ----
(***************************************************************************)
(* Model of dc_bot.py: the monitor loop (monitor_websites) that probes the *)
(* two configured targets and notifies on reachability changes, the prober *)
(* (check_website), the on_ready handler that starts the loop, and the     *)
(* console thread (console_handler) with its reload / reset / restart /    *)
(* stop commands.                                                          *)
(*                                                                         *)
(* The event loop is single-threaded and cooperative: a coroutine runs     *)
(* without interruption from one await to the next.  Every action below is *)
(* one such uninterrupted block, or one step of the console thread.        *)
(* Python's Optional values are sequences of length at most one:           *)
(* None is <<>> and a present value v is <<v>>.                            *)
(***************************************************************************)
EXTENDS Integers, Sequences, FiniteSets, TLC

\* Latency samples elapsed_ms are drawn from 0..MaxElapsed.
MaxElapsed == 1
\* Coroutines submitted to bot.loop by the console and not yet run.
MaxQueued == 1

None == <<>>
Some(v) == <<v>>

URL == "URL"
BACKUP_URL == "BACKUP_URL"
\* for site in [URL, BACKUP_URL]
Sites == <<URL, BACKUP_URL>>
SiteSet == {Sites[i] : i \in 1..Len(Sites)}

\* The slash commands registered on bot.tree by the decorators.
Commands == {"ping", "test", "listcommands"}

\* HTTP status codes a response can carry (both edges of the 2xx range).
Statuses == {199, 200, 299, 300, 503}
\* What session.get can do: answer with a status after elapsed_ms, exceed
\* ClientTimeout(total=TIMEOUT), or fail with a connection or other error.
HttpOutcomes ==
    [kind : {"response"}, status : Statuses, elapsed_ms : 0..MaxElapsed]
    \cup [kind : {"timeout", "error"}, status : {0}, elapsed_ms : {0}]

VARIABLES
    last_status,      \* last_status[site]: None, or the stored reachability
    tree,             \* names registered in bot.tree
    proc,             \* "running" | "exited"
    sigint,           \* SIGINT sent by stop and not yet handled by the main thread
    task,             \* the tasks.Loop task: "unstarted" | "running" | "done"
    pc,               \* where the loop body is suspended: "none" between ticks
    site,             \* index into Sites of the for loop
    is_accessible,    \* locals of monitor_websites
    response_time,
    http,             \* the outcome of the HTTP request of the last probe
    console,          \* console thread: "input" | "reset_wait" | "exited"
    queue,            \* coroutines handed to bot.loop, in submission order
    future,           \* the future reset waits on
    console_out,      \* the last line printed for a console command, as
                      \* <<text>> or <<text, count>>; <<>> before any
    tick_start,       \* last_status when the current/last tick began
    tick_observed,    \* per site, the reachability observed in the tick
    tick_folded,      \* per site, whether lines 105-122 ran for it in the tick
    tick_notified,    \* per site, whether channel.send was called in the tick
    tick_presence,    \* the change_presence calls of the tick
    tick_outcome,     \* how the tick ended
    tick_after_stop,  \* the tick began while a stop was pending
    tick_after_reset, \* per site, the tick's fold was the first after a reset
    since_reset,      \* per site, reset has run and the site was not folded since
    inflight_at_stop, \* the tick in flight when stop was issued is still running
    sync_calls,       \* bot.tree.sync calls made by the handler that ran last
    before_restart,   \* per site, the status the replaced process image had
                      \* stored, until the first tick of the new one begins
    tick_before_restart, \* before_restart as the tick found it
    tick_overlapped,  \* the tick began while another was in progress
    ping_pc,          \* where ping_command is suspended: "none" when idle
    ping_site,        \* index into Sites of its for loop
    ping_http,        \* the outcome of the HTTP request of its last probe
    ping_reply        \* per site, the embed field built from its probe

locals == <<site, is_accessible, response_time, http>>
console_vars == <<console, queue, future, console_out>>
tick_log == <<tick_start, tick_observed, tick_presence, tick_after_stop>>
vars == <<last_status, tree, proc, sigint, task, pc, site, is_accessible,
          response_time, http, console, queue, future,
          console_out, tick_start, tick_observed, tick_folded, tick_notified,
          tick_presence, tick_outcome, tick_after_stop, tick_after_reset,
          since_reset, inflight_at_stop, sync_calls, before_restart,
          tick_before_restart, tick_overlapped, ping_pc, ping_site,
          ping_http, ping_reply>>
query_vars == <<ping_pc, ping_site, ping_http, ping_reply>>

NoStatus == [s \in SiteSet |-> None]
NoFlags == [s \in SiteSet |-> FALSE]

\* The state of a freshly started process: module level code has run.
Init ==
    /\ last_status = NoStatus
    /\ tree = Commands
    /\ proc = "running"
    /\ sigint = FALSE
    /\ task = "unstarted"
    /\ pc = "none"
    /\ site = 1
    /\ is_accessible = FALSE
    /\ response_time = None
    /\ http = None
    /\ console = "input"
    /\ queue = <<>>
    /\ future = "none"
    /\ console_out = <<>>
    /\ tick_start = NoStatus
    /\ tick_observed = NoStatus
    /\ tick_folded = NoFlags
    /\ tick_notified = NoFlags
    /\ tick_presence = <<>>
    /\ tick_outcome = "none"
    /\ tick_after_stop = FALSE
    /\ tick_after_reset = NoFlags
    /\ since_reset = NoFlags
    /\ inflight_at_stop = FALSE
    /\ sync_calls = 0
    /\ before_restart = NoStatus
    /\ tick_before_restart = NoStatus
    /\ tick_overlapped = FALSE
    /\ ping_pc = "none"
    /\ ping_site = 1
    /\ ping_http = None
    /\ ping_reply = NoStatus

Alive == proc = "running"

----------------------------------------------------------------------------
\* check_website: the result pair (reachable, latency) for an HTTP outcome.
check_website_le300(o) ==
    IF o.kind = "response"
    THEN <<200 <= o.status /\ o.status <= 300, Some(o.elapsed_ms)>>
    ELSE <<FALSE, None>>

check_website(o) ==
    IF o.kind = "response"
    THEN <<200 <= o.status /\ o.status < 300, Some(o.elapsed_ms)>>
    ELSE <<FALSE, None>>

\* if last_status[site] is None
IsFirstRun_never(stored) == FALSE

IsFirstRun(stored) == stored = None

\* if is_accessible != last_status[site]
StatusChanged_always(stored, observed) == TRUE

StatusChanged(stored, observed) == Some(observed) /= stored

\* monitor_websites.is_running()
is_running(t) == t = "running"

\* tasks.Loop calls the body from one task, one call after the other: the
\* next call waits for the previous one to return.
LoopMayCallBody_reentrant(t, p) == is_running(t)

LoopMayCallBody(t, p) == is_running(t) /\ p = "none"

\* len(await bot.tree.sync()): the commands of the tree that are published.
tree_sync(t) == Cardinality(t)

\* for cmd in bot.tree.get_commands(): bot.tree.remove_command(cmd.name)
remove_commands_none(t) == t

remove_commands(t) == {}

\* last_status of the process image os.execv starts, given the one replaced.
execv_status_kept(stored) == stored

execv_status(stored) == NoStatus

\* Lines typed at the console.
Lines == {"reload", "reset", "restart", "stop", " Stop ", "help"}

\* cmd = input(...).strip().lower()
strip_lower(line) == IF line = " Stop " THEN "stop" ELSE line

\* The branch of the if / elif / else chain that cmd takes.
console_dispatch_lenient(c) ==
    IF c \in {"reload", "reset", "restart", "stop"} THEN c ELSE "reload"

console_dispatch(c) ==
    IF c \in {"reload", "reset", "restart", "stop"} THEN c ELSE "unknown"

\* asyncio.run_coroutine_threadsafe(coro, bot.loop): coro is handed to the
\* loop once; the call returns without waiting for it.
run_coroutine_threadsafe_twice(q, coro) == Append(Append(q, coro), coro)

run_coroutine_threadsafe(q, coro) == Append(q, coro)

\* Where the console thread is after a branch has handed over its work:
\* only reset goes on to future.result(timeout=30).
console_after_reload_waits(branch) ==
    IF branch \in {"reset", "reload"} THEN "reset_wait" ELSE "input"

console_after(branch) == IF branch = "reset" THEN "reset_wait" ELSE "input"

\* try: future.result(timeout=30) / except Exception / else: the line
\* printed for a future that is done, has raised, or is still pending when
\* the 30 seconds are over (TimeoutError).
reset_report_unless_raised(fut) ==
    IF fut = "raised" THEN "reset_failed" ELSE "reset_completed"

reset_report(fut) ==
    IF fut = "done" THEN "reset_completed" ELSE "reset_failed"

----------------------------------------------------------------------------
\* The for loop moves on to the next site, or the body returns.
Advance ==
    IF site < Len(Sites)
    THEN /\ pc' = "check_website"
         /\ site' = site + 1
         /\ UNCHANGED <<task, tick_outcome, inflight_at_stop>>
    ELSE /\ pc' = "none"
         /\ tick_outcome' = "completed"
         /\ inflight_at_stop' = FALSE
         /\ UNCHANGED <<site, task>>

\* An exception leaves the loop body.  tasks.Loop sleeps and calls the body
\* again for connection-class errors and lets the task end for any other.
Abort(reason) ==
    /\ pc' = "none"
    /\ tick_outcome' = reason
    /\ inflight_at_stop' = FALSE
    /\ \E t \in {"running", "done"} : task' = t
    /\ UNCHANGED site

\* Lines 105-122 up to the await of channel.send, for site s observed as obs.
Fold_every_site(s, obs) ==
    /\ tick_folded' = [tick_folded EXCEPT ![s] = TRUE]
    /\ tick_after_reset' = [tick_after_reset EXCEPT ![s] = since_reset[s]]
    /\ since_reset' = [since_reset EXCEPT ![s] = FALSE]
    /\ last_status' = [t \in SiteSet |-> Some(obs)]
    /\ tick_notified' = tick_notified
    /\ Advance

Fold(s, obs) ==
    /\ tick_folded' = [tick_folded EXCEPT ![s] = TRUE]
    /\ tick_after_reset' = [tick_after_reset EXCEPT ![s] = since_reset[s]]
    /\ since_reset' = [since_reset EXCEPT ![s] = FALSE]
    /\ IF IsFirstRun(last_status[s])
       THEN /\ last_status' = [last_status EXCEPT ![s] = Some(obs)]
            /\ tick_notified' = tick_notified
            /\ Advance
       ELSE IF StatusChanged(last_status[s], obs)
       THEN /\ tick_notified' = [tick_notified EXCEPT ![s] = TRUE]
            /\ pc' = "channel_send"
            /\ UNCHANGED <<last_status, site, task, tick_outcome,
                           inflight_at_stop>>
       ELSE /\ UNCHANGED <<last_status, tick_notified>>
            /\ Advance

\* A tick begins: bot.get_channel, then the first check_website is awaited.
monitor_websites ==
    /\ Alive
    /\ LoopMayCallBody(task, pc)
    /\ tick_overlapped' = (pc /= "none")
    /\ tick_before_restart' = before_restart
    /\ before_restart' = NoStatus
    /\ tick_start' = last_status
    /\ tick_observed' = NoStatus
    /\ tick_folded' = NoFlags
    /\ tick_notified' = NoFlags
    /\ tick_after_reset' = NoFlags
    /\ tick_presence' = <<>>
    /\ tick_after_stop' = sigint
    /\ \E channel \in {"None", "channel"} :
          IF channel = "None"
          THEN /\ tick_outcome' = "no_channel"
               /\ UNCHANGED <<pc, site>>
          ELSE /\ tick_outcome' = "running"
               /\ pc' = "check_website"
               /\ site' = 1
    /\ UNCHANGED <<last_status, tree, proc, sigint, task, is_accessible,
                   response_time, http, console_vars, since_reset,
                   inflight_at_stop, sync_calls, query_vars>>

\* check_website returns; for the primary site change_presence is awaited.
check_website_return ==
    /\ Alive
    /\ pc = "check_website"
    /\ \E o \in HttpOutcomes :
         LET r == check_website(o)
             s == Sites[site]
         IN  /\ http' = Some(o)
             /\ is_accessible' = r[1]
             /\ response_time' = r[2]
             /\ tick_observed' = [tick_observed EXCEPT ![s] = Some(r[1])]
             /\ IF s = URL
                THEN /\ tick_presence' = Append(tick_presence,
                                          [site |-> s, reachable |-> r[1]])
                     /\ pc' = "change_presence"
                     /\ UNCHANGED <<last_status, site, task, tick_folded,
                                    tick_notified, tick_outcome,
                                    tick_after_reset, since_reset,
                                    inflight_at_stop>>
                ELSE /\ Fold(s, r[1])
                     /\ UNCHANGED tick_presence
    /\ UNCHANGED <<tree, proc, sigint, console_vars, tick_start,
                   tick_after_stop, tick_overlapped, sync_calls,
                   before_restart, tick_before_restart, query_vars>>

\* bot.change_presence returns or raises.
change_presence_return ==
    /\ Alive
    /\ pc = "change_presence"
    /\ \E raised \in BOOLEAN :
         IF raised
         THEN /\ Abort("presence_raised")
              /\ UNCHANGED <<last_status, tick_folded, tick_notified,
                             tick_after_reset, since_reset>>
         ELSE Fold(Sites[site], is_accessible)
    /\ UNCHANGED <<tree, proc, sigint, is_accessible, response_time, http,
                   console_vars, tick_log, tick_overlapped, sync_calls,
                   before_restart, tick_before_restart, query_vars>>

\* channel.send returns (line 122 then stores the status) or raises.
channel_send_return ==
    /\ Alive
    /\ pc = "channel_send"
    /\ \E raised \in BOOLEAN :
         IF raised
         THEN /\ Abort("send_raised")
              /\ UNCHANGED last_status
         ELSE /\ last_status' = [last_status EXCEPT
                                   ![Sites[site]] = Some(is_accessible)]
              /\ Advance
    /\ UNCHANGED <<tree, proc, sigint, is_accessible, response_time, http,
                   console_vars, tick_log, tick_folded, tick_notified,
                   tick_after_reset, since_reset, before_restart,
                   tick_before_restart, tick_overlapped, sync_calls,
                   query_vars>>

\* on_ready: sync the tree, then start the loop unless it is running.
on_ready ==
    /\ Alive
    /\ sync_calls' = 1
    /\ task' = IF is_running(task) THEN task ELSE "running"
    /\ UNCHANGED <<last_status, tree, proc, sigint, pc, locals, console_vars,
                   tick_log, tick_folded, tick_notified, tick_outcome,
                   tick_after_reset, since_reset, inflight_at_stop,
                   before_restart, tick_before_restart, tick_overlapped,
                   query_vars>>

----------------------------------------------------------------------------
\* Console thread: cmd == "reload" hands reload_commands to bot.loop and
\* goes back to input without waiting.
console_reload ==
    /\ Alive
    /\ console = "input"
    /\ Len(queue) < MaxQueued
    /\ \E line \in Lines : console_dispatch(strip_lower(line)) = "reload"
    /\ queue' = run_coroutine_threadsafe(queue, "reload")
    /\ console' = console_after("reload")
    /\ UNCHANGED <<last_status, tree, proc, sigint, task, pc, locals,
                   future, console_out, tick_log, tick_folded, tick_notified,
                   tick_outcome, tick_after_reset, since_reset,
                   inflight_at_stop, sync_calls, before_restart,
                   tick_before_restart, tick_overlapped,
                   query_vars>>

\* Event loop: reload_commands awaits bot.tree.sync and prints the result.
reload_commands ==
    /\ Alive
    /\ queue /= <<>>
    /\ Head(queue) = "reload"
    /\ queue' = Tail(queue)
    /\ sync_calls' = 1
    /\ \E sync_ok \in BOOLEAN :
         console_out' = IF sync_ok THEN <<"reloaded", tree_sync(tree)>>
                        ELSE <<"reload_failed">>
    /\ UNCHANGED <<last_status, tree, proc, sigint, task, pc, locals, console,
                   future, tick_log, tick_folded, tick_notified,
                   tick_outcome, tick_after_reset, since_reset,
                   inflight_at_stop, before_restart, tick_before_restart,
                   tick_overlapped,
                   query_vars>>

\* Console thread: cmd == "reset" hands full_reset_commands to bot.loop and
\* blocks in future.result(timeout=30).
console_reset ==
    /\ Alive
    /\ console = "input"
    /\ Len(queue) < MaxQueued
    /\ \E line \in Lines : console_dispatch(strip_lower(line)) = "reset"
    /\ queue' = run_coroutine_threadsafe(queue, "reset")
    /\ future' = "pending"
    /\ console' = console_after("reset")
    /\ console_out' = <<"resetting">>
    /\ UNCHANGED <<last_status, tree, proc, sigint, task, pc, locals,
                   tick_log, tick_folded, tick_notified, tick_outcome,
                   tick_after_reset, since_reset, inflight_at_stop,
                   sync_calls, before_restart, tick_before_restart,
                   tick_overlapped,
                   query_vars>>

\* Event loop: full_reset_commands removes every command from bot.tree,
\* syncs and prints how many commands the sync published.  "reset_orphan"
\* is a reset whose console wait has timed out:
\* the coroutine still runs, nobody reads its future.
full_reset_commands ==
    /\ Alive
    /\ queue /= <<>>
    /\ Head(queue) \in {"reset", "reset_orphan"}
    /\ queue' = Tail(queue)
    /\ tree' = remove_commands(tree)
    /\ sync_calls' = 1
    /\ \E sync_ok \in BOOLEAN :
         /\ console_out' =
                IF sync_ok THEN <<"synced", tree_sync(remove_commands(tree))>>
                ELSE console_out
         /\ future' = IF Head(queue) = "reset"
                      THEN (IF sync_ok THEN "done" ELSE "raised")
                      ELSE future
         /\ since_reset' = IF sync_ok THEN [s \in SiteSet |-> TRUE]
                           ELSE since_reset
    /\ UNCHANGED <<last_status, proc, sigint, task, pc, locals, console,
                   tick_log, tick_folded, tick_notified,
                   tick_outcome, tick_after_reset, inflight_at_stop,
                   before_restart, tick_before_restart, tick_overlapped,
                   query_vars>>

\* Console thread: future.result returns or re-raises within the 30 seconds.
reset_result ==
    /\ Alive
    /\ console = "reset_wait"
    /\ future \in {"done", "raised"}
    /\ console_out' = <<reset_report(future)>>
    /\ console' = "input"
    /\ future' = "none"
    /\ UNCHANGED <<last_status, tree, proc, sigint, task, pc, locals,
                   queue,
                   tick_log, tick_folded, tick_notified, tick_outcome,
                   tick_after_reset, since_reset, inflight_at_stop,
                   sync_calls, before_restart, tick_before_restart,
                   tick_overlapped,
                   query_vars>>

\* Console thread: future.result(timeout=30) raises TimeoutError.
reset_timeout ==
    /\ Alive
    /\ console = "reset_wait"
    /\ future = "pending"
    /\ console_out' = <<reset_report(future)>>
    /\ console' = "input"
    /\ future' = "none"
    /\ queue' = [i \in 1..Len(queue) |->
                    IF queue[i] = "reset" THEN "reset_orphan" ELSE queue[i]]
    /\ UNCHANGED <<last_status, tree, proc, sigint, task, pc, locals,
                   tick_log, tick_folded, tick_notified, tick_outcome,
                   tick_after_reset, since_reset, inflight_at_stop,
                   sync_calls, before_restart, tick_before_restart,
                   tick_overlapped,
                   query_vars>>

\* Console thread: cmd == "restart": os.execv replaces the process image.
console_restart ==
    /\ Alive
    /\ console = "input"
    /\ \E line \in Lines : console_dispatch(strip_lower(line)) = "restart"
    /\ last_status' = execv_status(last_status)
    /\ before_restart' = last_status
    /\ tick_before_restart' = NoStatus
    /\ tick_overlapped' = FALSE
    /\ sync_calls' = 0
    /\ ping_pc' = "none"
    /\ ping_site' = 1
    /\ ping_http' = None
    /\ ping_reply' = NoStatus
    /\ tree' = Commands
    /\ proc' = "running"
    /\ sigint' = FALSE
    /\ task' = "unstarted"
    /\ pc' = "none"
    /\ site' = 1
    /\ is_accessible' = FALSE
    /\ response_time' = None
    /\ http' = None
    /\ console' = "input"
    /\ queue' = <<>>
    /\ future' = "none"
    /\ console_out' = <<>>
    /\ tick_start' = NoStatus
    /\ tick_observed' = NoStatus
    /\ tick_folded' = NoFlags
    /\ tick_notified' = NoFlags
    /\ tick_presence' = <<>>
    /\ tick_outcome' = "none"
    /\ tick_after_stop' = FALSE
    /\ tick_after_reset' = NoFlags
    /\ since_reset' = NoFlags
    /\ inflight_at_stop' = FALSE

\* Console thread: cmd == "stop": os.kill(os.getpid(), signal.SIGINT).  The
\* call returns at once; the main thread handles the signal later.
console_stop ==
    /\ Alive
    /\ console = "input"
    /\ \E line \in Lines : console_dispatch(strip_lower(line)) = "stop"
    /\ sigint' = TRUE
    /\ console' = console_after("stop")
    /\ console_out' = <<"stopping">>
    /\ inflight_at_stop' = (pc /= "none")
    /\ UNCHANGED <<last_status, tree, proc, task, pc, locals, queue,
                   future, tick_log, tick_folded, tick_notified, tick_outcome,
                   tick_after_reset, since_reset, sync_calls, before_restart,
                   tick_before_restart, tick_overlapped,
                   query_vars>>

\* Console thread: any other input prints the list of commands.
console_unknown ==
    /\ Alive
    /\ console = "input"
    /\ \E line \in Lines : console_dispatch(strip_lower(line)) = "unknown"
    /\ console' = console_after("unknown")
    /\ console_out' = <<"unknown">>
    /\ UNCHANGED <<last_status, tree, proc, sigint, task, pc, locals,
                   queue, future, tick_log, tick_folded, tick_notified,
                   tick_outcome, tick_after_reset, since_reset,
                   inflight_at_stop, sync_calls, before_restart,
                   tick_before_restart, tick_overlapped,
                   query_vars>>

\* Main thread: the SIGINT is handled; bot.run cancels every task of the
\* loop, the loop body included wherever it is suspended, and returns.  The
\* process ends: the daemon console thread and whatever was still handed
\* to the closed loop go with it.
KeyboardInterrupt ==
    /\ Alive
    /\ sigint
    /\ proc' = "exited"
    /\ task' = IF task = "running" THEN "done" ELSE task
    /\ pc' = "none"
    /\ tick_outcome' = IF pc /= "none" THEN "cancelled" ELSE tick_outcome
    /\ console' = "exited"
    /\ queue' = <<>>
    /\ future' = "none"
    /\ UNCHANGED <<last_status, tree, sigint, locals, console_out,
                   tick_log,
                   tick_folded, tick_notified, tick_after_reset, since_reset,
                   inflight_at_stop, sync_calls, before_restart,
                   tick_before_restart, tick_overlapped, query_vars>>

----------------------------------------------------------------------------
\* What ping_command takes as the status of a site: the result of a fresh
\* check_website(site); the stored status is not consulted.
ping_probe_cached(o, stored) ==
    IF stored /= None THEN <<stored[1], None>> ELSE check_website(o)

ping_probe(o, stored) == check_website(o)

\* The embed field of a site: ONLINE / OFFLINE, and whether a response time
\* is shown (`if response_time`: None and 0.0 both read as not measured).
ping_field(r) ==
    [ok |-> r[1], measured |-> (r[2] /= None /\ r[2] /= Some(0))]

\* /ping is invoked: the interaction is deferred, the embed is created and
\* the first check_website is awaited.  One invocation at a time.
ping_command ==
    /\ Alive
    /\ "ping" \in tree
    /\ ping_pc = "none"
    /\ ping_pc' = "check_website"
    /\ ping_site' = 1
    /\ ping_http' = None
    /\ ping_reply' = NoStatus
    /\ UNCHANGED <<last_status, tree, proc, sigint, task, pc, locals,
                   console_vars, tick_log, tick_folded, tick_notified,
                   tick_outcome, tick_after_reset, since_reset,
                   inflight_at_stop, sync_calls, before_restart,
                   tick_before_restart, tick_overlapped>>

\* check_website returns to ping_command: the field of the site is added;
\* after the last site the embed is sent.
ping_check_website_return ==
    /\ Alive
    /\ ping_pc = "check_website"
    /\ \E o \in HttpOutcomes :
         LET s == Sites[ping_site]
         IN  /\ ping_http' = Some(o)
             /\ ping_reply' = [ping_reply EXCEPT
                   ![s] = Some(ping_field(ping_probe(o, last_status[s])))]
    /\ IF ping_site < Len(Sites)
       THEN /\ ping_site' = ping_site + 1
            /\ UNCHANGED ping_pc
       ELSE /\ ping_pc' = "none"
            /\ UNCHANGED ping_site
    /\ UNCHANGED <<last_status, tree, proc, sigint, task, pc, locals,
                   console_vars, tick_log, tick_folded, tick_notified,
                   tick_outcome, tick_after_reset, since_reset,
                   inflight_at_stop, sync_calls, before_restart,
                   tick_before_restart, tick_overlapped>>

Next ==
    \/ monitor_websites
    \/ check_website_return
    \/ change_presence_return
    \/ channel_send_return
    \/ on_ready
    \/ console_reload
    \/ reload_commands
    \/ console_reset
    \/ full_reset_commands
    \/ reset_result
    \/ reset_timeout
    \/ console_restart
    \/ console_stop
    \/ console_unknown
    \/ KeyboardInterrupt

Spec == Init /\ [][Next]_vars

\* The monitor loop together with the on-demand status query.
NextQuery ==
    \/ monitor_websites
    \/ check_website_return
    \/ change_presence_return
    \/ channel_send_return
    \/ on_ready
    \/ ping_command
    \/ ping_check_website_return

SpecQuery == Init /\ [][NextQuery]_vars

----------------------------------------------------------------------------
\* The condition under which a transition is to be notified for site s in
\* the current tick: the status stored when the tick began is known and
\* differs from the reachability the tick observed.
TransitionDue(s) ==
    /\ tick_start[s] /= None
    /\ tick_start[s] /= tick_observed[s]

\* Whether an HTTP outcome is a response whose status is in [200, 300).
Is2xx(o) == o.kind = "response" /\ 200 <= o.status /\ o.status < 300

\* C1: for every target whose observation reaches the comparison of lines
\* 105-122 in a tick, channel.send is called for it in that tick if and
\* only if the status stored when the tick began was not None and differs
\* from the observed reachability; no notification is sent for a target the
\* tick did not compare; and until a target is compared its stored status
\* is still the one the tick began with, so the comparison is against the
\* immediately preceding stored value.
C1_TransitionIffChanged ==
    \A s \in SiteSet :
        /\ tick_notified[s] => tick_folded[s]
        /\ tick_folded[s] => (tick_notified[s] <=> TransitionDue(s))
        /\ (pc /= "none" /\ ~tick_folded[s]) => last_status[s] = tick_start[s]

\* C1 witness: a stored "reachable" met an "unreachable" observation and the
\* transition was notified.
C1_Witness ==
    \E s \in SiteSet :
        /\ tick_notified[s]
        /\ tick_start[s] = Some(TRUE)
        /\ tick_observed[s] = Some(FALSE)

\* C2: when the stored status of a target is None as its observation is
\* folded in, no notification is sent for it and the stored status becomes
\* the observed value, whether reachable or not.
C2_FirstObservationSilent ==
    \A s \in SiteSet :
        (tick_folded[s] /\ tick_start[s] = None) =>
            /\ ~tick_notified[s]
            /\ last_status[s] = tick_observed[s]

\* C2 witness: a first observation "unreachable" has been recorded.
C2_Witness ==
    \E s \in SiteSet :
        /\ tick_folded[s]
        /\ tick_start[s] = None
        /\ tick_observed[s] = Some(FALSE)
        /\ last_status[s] = Some(FALSE)

\* C3: after reset has run, every target's stored status is None until its
\* next observation, and that observation produces no notification.
C3_ResetRebaselines ==
    \A s \in SiteSet :
        /\ since_reset[s] => last_status[s] = None
        /\ tick_after_reset[s] => ~tick_notified[s]

\* C4: a tick in which change_presence or channel.send raised for one target
\* has still probed and folded every configured target.
C4_TickSurvivesTargetFailure ==
    tick_outcome \in {"presence_raised", "send_raised"} =>
        \A s \in SiteSet : tick_observed[s] /= None /\ tick_folded[s]

\* C5: when channel.send raised, the target's stored status is the newly
\* observed value (so the transition is not notified again) and the loop is
\* still running.
C5_SendFailureHarmless ==
    tick_outcome = "send_raised" =>
        /\ last_status[Sites[site]] = Some(is_accessible)
        /\ task = "running"

\* C6: a tick that found no channel has still probed every target and
\* stored what it observed.
C6_NoChannelStillUpdates ==
    tick_outcome = "no_channel" =>
        \A s \in SiteSet :
            /\ tick_observed[s] /= None
            /\ last_status[s] = tick_observed[s]

\* C7: no tick begins after stop has been issued.
C7_NoTickAfterStop == ~tick_after_stop

\* C8: the process never ends while the tick that was in flight when stop
\* was issued is still unfinished.
C8_InflightTickCompletes == ~(proc = "exited" /\ inflight_at_stop)

\* C9 as claimed: reachable exactly for a 2xx response, and a latency sample
\* only together with reachable = true.
C9_LatencyOnlyWhenReachable ==
    http /= None =>
        /\ is_accessible <=> Is2xx(http[1])
        /\ response_time /= None => is_accessible

\* C9: check_website returns reachable = true exactly for a response with
\* 200 <= status < 300, and a latency sample exactly when a response was
\* received, whatever its status; it returns None as latency only for a
\* timeout or an error.
C9_LatencyWhenResponded ==
    http /= None =>
        /\ is_accessible <=> Is2xx(http[1])
        /\ response_time = None <=> http[1].kind /= "response"
        /\ http[1].kind = "response" =>
               response_time = Some(http[1].elapsed_ms)

\* C9 witness: a non-2xx response came back unreachable with a latency.
C9_Witness ==
    /\ http /= None
    /\ http[1].kind = "response"
    /\ http[1].status = 503
    /\ ~is_accessible
    /\ response_time /= None

\* C10: every tick that has ended requested exactly one presence update, for
\* the primary target with the reachability observed in that tick, and no
\* presence update is ever requested for the backup target.
C10_OnePresencePerTick ==
    /\ \A i \in 1..Len(tick_presence) : tick_presence[i].site = URL
    /\ tick_outcome \notin {"none", "running"} =>
          /\ Len(tick_presence) = 1
          /\ tick_observed[URL] = Some(tick_presence[1].reachable)

\* C11: whenever the stored status of a target changes or a notification
\* about it is sent, the step is one of the loop body while it handles that
\* very target (the only other change of a stored status is the restart,
\* which empties all of them): handling one target never changes the stored
\* status of the other target nor sends a notification about it.
C11_OtherTargetUntouched ==
    [][\A t \in SiteSet :
         (last_status'[t] /= last_status[t]
            \/ (tick_notified'[t] /\ ~tick_notified[t])) =>
             \/ pc /= "none" /\ Sites[site] = t
             \/ console_restart]_vars

\* C11 witness: in one tick a transition of the primary target was notified
\* and stored while the backup target, observed unchanged, kept its status
\* and got no notification.
C11_Witness ==
    /\ tick_outcome = "completed"
    /\ tick_notified[URL]
    /\ last_status[URL] /= tick_start[URL]
    /\ tick_start[BACKUP_URL] /= None
    /\ last_status[BACKUP_URL] = tick_start[BACKUP_URL]
    /\ ~tick_notified[BACKUP_URL]

----------------------------------------------------------------------------
\* A step of the status query: it is invoked, or one of its probes returns.
PingStep ==
    \/ ping_command
    \/ ping_check_website_return

\* Index into Sites of the site the query probed last.
PingProbed == IF ping_pc = "none" THEN ping_site ELSE ping_site - 1

\* C12: the field the status query reports for a site is computed from the
\* HTTP outcome of the probe the query itself just made, never from the
\* stored status; no step of the query changes the stored status or anything
\* the monitor loop recorded or decides on; and with queries interleaved at
\* every await of a tick, a notification is still sent exactly when the
\* status stored at the start of the tick differs from the observation.
C12_PingFreshAndSeparate ==
    /\ [](ping_http /= None =>
            ping_reply[Sites[PingProbed]] =
                Some(ping_field(check_website(ping_http[1]))))
    /\ [][PingStep =>
            UNCHANGED <<last_status, task, pc, locals, tick_log, tick_folded,
                        tick_notified, tick_outcome>>]_vars
    /\ []C1_TransitionIffChanged

\* C12 witness: between two ticks a finished query reported a target as
\* reachable while its stored status, which stays as it was, is unreachable.
C12_Witness ==
    /\ pc = "none"
    /\ ping_pc = "none"
    /\ ping_http /= None
    /\ \E s \in SiteSet :
         /\ last_status[s] = Some(FALSE)
         /\ ping_reply[s] /= None
         /\ ping_reply[s][1].ok

\* C13: while the console waits for a reset its future is one the wait ends
\* on; when the wait times out the console prints the failure line and is
\* back at reading input; and the success line is only ever printed by a
\* console that was waiting on a future that is done, so never for a reset
\* that timed out, whenever its coroutine finishes afterwards.
C13_ResetWaitEndsInFailure ==
    /\ [](console = "reset_wait" => future \in {"pending", "done", "raised"})
    /\ [][reset_timeout =>
            /\ console_out' = <<"reset_failed">>
            /\ console' = "input"]_vars
    /\ [][(console_out' = <<"reset_completed">>
           /\ console_out /= <<"reset_completed">>) =>
            (console = "reset_wait" /\ future = "done")]_vars

\* C13 witness: a reset timed out; the failure was printed, the console is
\* reading input again and the coroutine is still to run.
C13_Witness ==
    /\ console = "input"
    /\ console_out = <<"reset_failed">>
    /\ queue /= <<>>
    /\ Head(queue) = "reset_orphan"

\* C14: handing over a reload leaves the console reading input with no
\* future to wait on, and the console only ever starts to wait in the reset
\* branch.
C14_ReloadDoesNotBlock ==
    /\ [][console_reload => (console' = "input" /\ future' = future)]_vars
    /\ [][(console = "input" /\ console' = "reset_wait") =>
            console_reset]_vars

\* C14 witness: reload_commands has not run yet and the console has already
\* taken a stop command.
C14_Witness ==
    /\ console = "input"
    /\ queue = <<"reload">>
    /\ console_out = <<"stopping">>
    /\ proc = "running"

\* C15: a reload command hands exactly one reload_commands to the loop;
\* when it runs it makes one sync call, prints the count or the failure,
\* and leaves the stored statuses, the notifications, the tick in flight,
\* the loop task, the process and the command tree as they were.
C15_ReloadOneSyncNoEffect ==
    /\ [][console_reload => queue' = Append(queue, "reload")]_vars
    /\ [][reload_commands =>
            /\ sync_calls' = 1
            /\ queue' = Tail(queue)
            /\ console_out' \in {<<"reloaded", Cardinality(tree)>>,
                                 <<"reload_failed">>}
            /\ UNCHANGED <<last_status, tree, proc, sigint, task, pc, locals,
                           tick_log, tick_folded, tick_notified,
                           tick_outcome>>]_vars

\* C15 witness: a reload whose sync raised was reported while a tick was in
\* flight with a stored status, and the loop is still running.
C15_Witness ==
    /\ console_out = <<"reload_failed">>
    /\ sync_calls = 1
    /\ task = "running"
    /\ pc /= "none"
    /\ \E s \in SiteSet : last_status[s] /= None

\* C16: every line that, stripped and lowered, is none of reload, reset,
\* restart and stop takes the else branch; and a step that prints the
\* diagnostic, which only that branch prints, changes nothing else: stored
\* statuses, the command tree, the loop task, the pending signal, what was
\* handed to the loop and the console's own position stay as they were.
C16_UnknownInputInert ==
    /\ [](\A line \in Lines :
            strip_lower(line) \notin {"reload", "reset", "restart", "stop"}
                => console_dispatch(strip_lower(line)) = "unknown")
    /\ [][(console_out' = <<"unknown">> /\ console_out /= <<"unknown">>) =>
            UNCHANGED <<last_status, tree, proc, sigint, task, pc, locals,
                        console, queue, future, sync_calls, tick_log,
                        tick_folded, tick_notified, tick_outcome,
                        since_reset, before_restart>>]_vars

\* C16 witness: the diagnostic was printed while a tick was in flight, with
\* a status stored and all the commands still registered.
C16_Witness ==
    /\ console_out = <<"unknown">>
    /\ pc = "change_presence"
    /\ tree = Commands
    /\ \E s \in SiteSet : last_status[s] /= None

\* C17: a tick that compares, for a target with a known stored status, an
\* observation equal to it sends no notification for that target and
\* leaves the stored status at that value (so that the next tick starts from
\* the same stored status, for any number of ticks in a row).
C17_SameValueSilent ==
    \A s \in SiteSet :
        (tick_folded[s] /\ tick_start[s] /= None
           /\ tick_observed[s] = tick_start[s]) =>
            /\ ~tick_notified[s]
            /\ last_status[s] = tick_start[s]

\* C17 witness: a completed tick observed both targets as reachable, as they
\* were stored, and notified nothing.
C17_Witness ==
    /\ tick_outcome = "completed"
    /\ \A s \in SiteSet :
         /\ tick_start[s] = Some(TRUE)
         /\ tick_observed[s] = Some(TRUE)
         /\ last_status[s] = Some(TRUE)
         /\ ~tick_notified[s]

\* C18: no tick begins while another is in progress, and a tick is only in
\* progress inside the one running loop task.
C18_OneTickAtATime ==
    /\ ~tick_overlapped
    /\ pc /= "none" => is_running(task)

\* C18 witness: a tick that is not the first one is suspended in the probe
\* of the second target.
C18_Witness ==
    /\ pc = "check_website"
    /\ site = 2
    /\ tick_start[URL] /= None
    /\ tick_folded[URL]
    /\ ~tick_overlapped

\* C19: until the first tick after a restart begins every stored status is
\* None, and that tick starts from None for every target and sends no
\* notification, whatever the replaced process had stored.
C19_RestartForgets ==
    \A s \in SiteSet :
        /\ before_restart[s] /= None => last_status[s] = None
        /\ tick_before_restart[s] /= None =>
              (tick_start[s] = None /\ ~tick_notified[s])

\* C19 witness: the first tick after a restart observed as unreachable a
\* target stored as reachable before the restart, recorded it and sent
\* nothing.
C19_Witness ==
    \E s \in SiteSet :
        /\ tick_before_restart[s] = Some(TRUE)
        /\ tick_folded[s]
        /\ tick_observed[s] = Some(FALSE)
        /\ last_status[s] = Some(FALSE)
        /\ ~tick_notified[s]

\* C20: once full_reset_commands has printed its sync count, or the console
\* has printed that the reset completed, the command tree is empty;
\* full_reset_commands leaves the tree empty and the count it prints, when
\* its sync succeeds, is zero; a reload_commands that runs on an empty tree
\* prints zero or the failure; and an empty tree gets commands again only by
\* a restart.
C20_ResetEmptiesTree ==
    /\ []((console_out = <<"reset_completed">>
           \/ (Len(console_out) = 2 /\ console_out[1] = "synced"))
             => tree = {})
    /\ [][full_reset_commands =>
            /\ tree' = {}
            /\ console_out' \in {<<"synced", 0>>, console_out}]_vars
    /\ [][(reload_commands /\ tree = {}) =>
            console_out' \in {<<"reloaded", 0>>, <<"reload_failed">>}]_vars
    /\ [][(tree = {} /\ tree' /= {}) => console_restart]_vars

\* C20 witness: after a reset a reload synced zero commands.
C20_Witness ==
    /\ tree = {}
    /\ console_out = <<"reloaded", 0>>
====
